---- MODULE Spec2Model ----
(***************************************************************************)
(* Live Task Channel of the PhoneAgent web client.                         *)
(*                                                                         *)
(*   web/src/stores/websocket.js            the connection store           *)
(*   web/src/components/PlanPreviewDialog.vue (second component of the     *)
(*                                           file) HumanInterventionDialog *)
(*   unnamed/part_002                       TaskRealTimePreview            *)
(*                                                                         *)
(* JavaScript runs each handler to completion on one event loop, so every  *)
(* handler (and every segment of an async function between two awaits) is  *)
(* one atomic action.                                                      *)
(***************************************************************************)
EXTENDS Integers, Sequences, FiniteSets, Bags, TLC

\* ------------------------------------------------------------------ bounds
\* transports that are alive or about to be created by a pending timer
MaxLive == 2
\* intervention requests the server issues (request ids 1..MaxRequests)
MaxRequests == 2
\* largest timeout (seconds) an intervention event carries
MaxTimeout == 2
\* longest text the operator types into the input field
MaxInputLen == 1
\* steps the server records for a task
MaxSteps == 2
\* HTTP requests of the task view that are in flight at once
MaxInflight == 2
MaxListeners == 2
\* largest reading (seconds) of the elapsed-time clock
MaxElapsed == 2

\* ------------------------------------------------------- program constants
maxReconnectAttempts == 10
FloorDelay == 1000
CeilDelay == 30000
DefaultTimeout == 60

\* saturation of the history counter of consecutive closes
KCap == maxReconnectAttempts + 2

VARIABLES
  \* ---- websocket.js
  socks,               \* readyState of every WebSocket object created so far
  ws,                  \* ws.value: 0 is null, otherwise a socket
  connected,           \* connected.value
  reconnectAttempts,   \* reconnectAttempts.value
  reconnectDelay,      \* reconnectDelay.value
  heartbeatTimer,      \* heartbeatTimer # null
  heartbeatLive,       \* history: setInterval instances of the heartbeat not yet cleared
  timers,              \* pending setTimeout(connect, d) callbacks, a bag of d
  outbox,              \* messages passed to send(data) by the last store step
  wire,                \* frames put on a transport by the last store step
  latestUpdate,        \* latestUpdate.value # null
  dispatched,          \* CustomEvents dispatched by the last store step (names)
  deviceStats,         \* deviceStats.value: 0 is the initial all-zero object
  taskStats,           \* taskStats.value: 0 is the initial all-zero object
  listeners,           \* window listeners of other consumers, in registration order
  invoked,             \* listener calls made by the last store step, in order
  \* ---- history of the connection (not program state)
  closesSinceOpen,     \* close events since the last open event (saturating)
  maxReached,          \* "Max reconnect attempts reached" has been logged
  disconnected,        \* disconnect() was the last consumer call
  \* ---- HumanInterventionDialog (PlanPreviewDialog.vue, second component)
  dlgMounted,          \* the 'human-intervention-needed' listener is registered
  visible,             \* visible.value
  interventionType,    \* interventionType.value
  message,             \* message.value
  options,             \* options.value
  inputValue,          \* inputValue.value, a sequence of characters
  timeout,             \* timeout.value
  remainingTime,       \* remainingTime.value
  requestId,           \* requestId.value ("" is modelled as 0)
  taskId,              \* taskId.value of the dialog
  countdownTimer,      \* countdownTimer # null
  countdownLive,       \* history: setInterval instances of the countdown not yet cleared
  \* ---- environment and history of the dialog (not program state)
  nextRequest,         \* the request id the server uses next
  handed,              \* per request id: responses handed to wsStore.send so far
  carried,             \* per request id: responses a transport carried so far
  accepted,            \* request ids that became pending
  ticks,               \* countdown ticks since the last request was shown
  \* ---- TaskRealTimePreview (unnamed/part_002)
  tvPhase,             \* "created" (before onMounted) "mounted" or "unmounted"
  propTaskId,          \* props.taskId ("" is null)
  currentTask,         \* currentTask.value
  steps,               \* steps.value
  pollingTimer,        \* pollingTimer.value # null
  pollLive,            \* history: setInterval instances of the poll not yet cleared
  elapsedTimer,        \* elapsedTimer # null
  elapsedLive,         \* history: setInterval instances of the elapsed timer not yet cleared
  elapsedTime,         \* elapsedTime.value, in seconds
  wasTerminal,         \* history: the view has shown a terminal status of the observed task
  calls,               \* async calls of the view waiting for an HTTP response
  showQuestionDialog,  \* showQuestionDialog.value
  pendingQuestion,     \* pendingQuestion.value
  userSelection,       \* userSelection.value ("" is nothing selected)
  userInput,           \* userInput.value, a sequence of characters
  isCancelling,        \* isCancelling.value
  isSubmitting,        \* isSubmitting.value
  answerFailed,        \* history: the last answer POST of submitAnswer was rejected
  \* ---- environment of the task view
  server               \* the backend's record of every task: its status, the
                       \* number of its steps, the options of its next question

wsVars == <<socks, ws, connected, reconnectAttempts, reconnectDelay,
            heartbeatTimer, heartbeatLive, timers, outbox, wire, latestUpdate, dispatched,
            deviceStats, taskStats, listeners, invoked>>
wsHist == <<closesSinceOpen, maxReached, disconnected>>

dlgVars == <<dlgMounted, visible, interventionType, message, options,
             inputValue, timeout, remainingTime, requestId, taskId,
             countdownTimer, countdownLive>>
dlgHist == <<nextRequest, handed, carried, accepted, ticks>>

\* the ask-user dialog of the task view
askVars == <<showQuestionDialog, pendingQuestion, userSelection, userInput>>
busyVars == <<isCancelling, isSubmitting, answerFailed>>

tvVars == <<tvPhase, propTaskId, currentTask, steps, pollingTimer, pollLive,
            elapsedTimer, elapsedLive, elapsedTime, wasTerminal, calls, askVars, busyVars>>
tvEnv == <<server>>

vars == <<wsVars, wsHist, dlgVars, dlgHist, tvVars, tvEnv>>

\* what the connection store never touches
nonWS == <<dlgVars, dlgHist, tvVars, tvEnv>>
\* what the intervention dialog never touches
nonDlg == <<socks, ws, connected, reconnectAttempts, reconnectDelay,
            heartbeatTimer, heartbeatLive, timers, deviceStats, taskStats, listeners, wsHist,
            tvVars, tvEnv>>
\* what the task view never touches
nonTV == <<wsVars, wsHist, dlgVars, dlgHist>>

Min(a, b) == IF a < b THEN a ELSE b

\* the live instances of a timer kind after `if (timer) clearInterval(timer)`
stopInterval(timer, live) == IF timer THEN live - 1 ELSE live

\* outbox, wire and dispatched describe the most recent step that entered
\* the connection store (a call of connect, disconnect or send, a socket or
\* timer callback, an inbound frame)
\* ... a step of the store that handles no inbound frame
noFrame ==
  /\ dispatched' = <<>> /\ invoked' = <<>>
  /\ UNCHANGED <<latestUpdate, deviceStats, taskStats, listeners>>
\* ... a step of the store that neither handles a frame nor calls send
quiet == outbox' = <<>> /\ wire' = <<>> /\ noFrame
\* a step that does not enter the store
noStore == UNCHANGED <<outbox, wire, latestUpdate, dispatched, invoked>>

\* ===================================================== websocket.js
Socks == 1..MaxLive
ReadyStates == {"NONE", "CONNECTING", "OPEN", "CLOSING", "CLOSED"}

\* a socket that can still deliver an open or close event
Live(sk, s) == sk[s] \in {"CONNECTING", "OPEN", "CLOSING"}
LiveSocks == {s \in Socks : Live(socks, s)}
FreeSocks(sk) == {s \in Socks : sk[s] = "NONE"}
PendingTimers == BagCardinality(timers)

\* ws.value && ws.value.readyState === WebSocket.OPEN, on (handle, table)
IsOpen(h, sk) == h # 0 /\ sk[h] = "OPEN"

\* connect() returns early exactly when this holds
connectGuard(h, sk) == IsOpen(h, sk)

sendNoStateCheck(h, sk, msg) == IF h # 0 THEN <<[sock |-> h, msg |-> msg]>> ELSE <<>>

\* send(data): the frames that reach a transport
send(h, sk, msg) == IF IsOpen(h, sk) THEN <<[sock |-> h, msg |-> msg]>> ELSE <<>>

Subscribe == [type |-> "subscribe"]
Ping == [type |-> "ping"]

nextDelayNoCap(d) == d * 2

\* Math.min(reconnectDelay.value * 2, 30000)
nextDelay(d) == Min(d * 2, CeilDelay)

mayReconnectOffByOne(a) == a <= maxReconnectAttempts

\* reconnectAttempts.value < maxReconnectAttempts
mayReconnect(a) == a < maxReconnectAttempts

\* a CLOSED socket that nothing references any more is forgotten
Forget(sk, h) == IF h # 0 /\ sk[h] = "CLOSED" THEN [sk EXCEPT ![h] = "NONE"] ELSE sk

\* connect(): ws.value = new WebSocket(url) unless the current one is OPEN
connect ==
  IF connectGuard(ws, socks)
  THEN UNCHANGED <<ws, socks>>
  ELSE LET sk == Forget(socks, ws) IN
       /\ FreeSocks(sk) # {}
       /\ LET n == CHOOSE s \in FreeSocks(sk) : \A t \in FreeSocks(sk) : s <= t IN
          /\ ws' = n
          /\ socks' = [sk EXCEPT ![n] = "CONNECTING"]

\* a consumer calls connect()
Connect ==
  /\ Cardinality(LiveSocks) + PendingTimers < MaxLive
  /\ connect
  /\ quiet
  /\ disconnected' = FALSE
  /\ UNCHANGED <<connected, reconnectAttempts, reconnectDelay, heartbeatTimer, heartbeatLive,
                 timers, closesSinceOpen, maxReached, nonWS>>

\* ws.value.onopen of socket s
onopen(s) ==
  /\ socks[s] = "CONNECTING"
  /\ socks' = [socks EXCEPT ![s] = "OPEN"]
  /\ connected' = TRUE
  /\ reconnectAttempts' = 0
  /\ reconnectDelay' = FloorDelay
  /\ outbox' = <<Subscribe>>
  /\ wire' = send(ws, socks', Subscribe)
  /\ noFrame
  /\ heartbeatTimer' = TRUE /\ heartbeatLive' = stopInterval(heartbeatTimer, heartbeatLive) + 1
  /\ UNCHANGED <<ws, timers>>

SocketOpen(s) ==
  /\ onopen(s)
  /\ closesSinceOpen' = 0
  /\ UNCHANGED <<maxReached, disconnected, nonWS>>

oncloseKeepsHeartbeat(s) ==
  /\ Live(socks, s)
  /\ socks' = IF ws = s THEN [socks EXCEPT ![s] = "CLOSED"]
                        ELSE [socks EXCEPT ![s] = "NONE"]
  /\ connected' = FALSE
  /\ UNCHANGED <<heartbeatTimer, heartbeatLive>>
  /\ IF mayReconnect(reconnectAttempts)
     THEN /\ reconnectAttempts' = reconnectAttempts + 1
          /\ timers' = timers (+) SetToBag({reconnectDelay})
          /\ reconnectDelay' = nextDelay(reconnectDelay)
     ELSE UNCHANGED <<reconnectAttempts, timers, reconnectDelay>>
  /\ quiet
  /\ UNCHANGED ws

\* ws.value.onclose of socket s
onclose(s) ==
  /\ Live(socks, s)
  /\ socks' = IF ws = s THEN [socks EXCEPT ![s] = "CLOSED"]
                        ELSE [socks EXCEPT ![s] = "NONE"]
  /\ connected' = FALSE
  /\ heartbeatTimer' = FALSE /\ heartbeatLive' = stopInterval(heartbeatTimer, heartbeatLive)
  /\ IF mayReconnect(reconnectAttempts)
     THEN /\ reconnectAttempts' = reconnectAttempts + 1
          /\ timers' = timers (+) SetToBag({reconnectDelay})
          /\ reconnectDelay' = nextDelay(reconnectDelay)
     ELSE UNCHANGED <<reconnectAttempts, timers, reconnectDelay>>
  /\ quiet
  /\ UNCHANGED ws

SocketClose(s) ==
  /\ onclose(s)
  /\ closesSinceOpen' = Min(closesSinceOpen + 1, KCap)
  /\ maxReached' = (maxReached \/ ~mayReconnect(reconnectAttempts))
  /\ UNCHANGED <<disconnected, nonWS>>

\* the callback of setTimeout(() => connect(), d) runs
ReconnectTimer(d) ==
  /\ BagIn(d, timers)
  /\ timers' = timers (-) SetToBag({d})
  /\ connect
  /\ quiet
  /\ UNCHANGED <<connected, reconnectAttempts, reconnectDelay, heartbeatTimer, heartbeatLive,
                 wsHist, nonWS>>

\* disconnect()
disconnect ==
  /\ heartbeatTimer' = FALSE /\ heartbeatLive' = stopInterval(heartbeatTimer, heartbeatLive)
  /\ IF ws # 0
     THEN socks' = IF socks[ws] \in {"CONNECTING", "OPEN"}
                   THEN [socks EXCEPT ![ws] = "CLOSING"]
                   ELSE Forget(socks, ws)
     ELSE UNCHANGED socks
  /\ ws' = 0
  /\ connected' = FALSE

Disconnect ==
  /\ disconnect
  /\ quiet
  /\ disconnected' = TRUE
  /\ UNCHANGED <<reconnectAttempts, reconnectDelay, timers, closesSinceOpen,
                 maxReached, nonWS>>

\* the setInterval callback of startHeartbeat
HeartbeatTick ==
  /\ heartbeatTimer
  /\ outbox' = <<Ping>>
  /\ wire' = send(ws, socks, Ping)
  /\ noFrame
  /\ UNCHANGED <<socks, ws, connected, reconnectAttempts, reconnectDelay,
                 heartbeatTimer, heartbeatLive, timers, wsHist, nonWS>>

InitWS ==
  /\ socks = [s \in Socks |-> "NONE"]
  /\ ws = 0
  /\ connected = FALSE
  /\ reconnectAttempts = 0
  /\ reconnectDelay = FloorDelay
  /\ heartbeatTimer = FALSE
  /\ heartbeatLive = 0
  /\ timers = EmptyBag
  /\ outbox = <<>>
  /\ wire = <<>>
  /\ latestUpdate = FALSE
  /\ dispatched = <<>>
  /\ deviceStats = 0
  /\ taskStats = 0
  /\ listeners = <<>>
  /\ invoked = <<>>
  /\ closesSinceOpen = 0
  /\ maxReached = FALSE
  /\ disconnected = FALSE

\* ============================== HumanInterventionDialog (PlanPreviewDialog.vue)
Kinds == {"confirm", "input"}
\* data.message: every request has its own text
MessageOf(r) == <<"message", r>>
TaskIds == {"A", "B"}
\* data.timeout: 0 stands for a missing (or zero) timeout
Timeouts == 0..MaxTimeout
\* data.options: missing, or a list of button labels
NoOptions == [present |-> FALSE, list |-> <<>>]
OptionLists == {NoOptions, [present |-> TRUE, list |-> <<"yes", "no">>]}
\* ['确认', '取消']
DefaultOptions == <<"confirm_zh", "cancel_zh">>
Chars == {" ", "a"}
InputTexts == UNION {[1..n -> Chars] : n \in 0..MaxInputLen}

\* the detail of a human_intervention_needed event with request id r
Details(r) ==
  [intervention_type : Kinds, message : {MessageOf(r)}, request_id : {r},
   task_id : TaskIds, timeout : Timeouts, options : OptionLists]

RECURSIVE TrimLeft(_)
TrimLeft(t) == IF t # <<>> /\ Head(t) = " " THEN TrimLeft(Tail(t)) ELSE t
RECURSIVE TrimRight(_)
TrimRight(t) ==
  IF t # <<>> /\ t[Len(t)] = " " THEN TrimRight(SubSeq(t, 1, Len(t) - 1)) ELSE t
\* String.prototype.trim
trim(t) == TrimRight(TrimLeft(t))

\* data.timeout || 60
timeoutOf(data) == IF data.timeout = 0 THEN DefaultTimeout ELSE data.timeout

\* data.options || ['确认', '取消']
optionsOf(data) == IF data.options.present THEN data.options.list ELSE DefaultOptions

\* sendResponse(response): the message is handed to wsStore.send
sendResponse(response) ==
  LET msg == [type |-> "human_intervention_response",
              request_id |-> requestId, task_id |-> taskId,
              success |-> response.success,
              response_type |-> response.response_type,
              selected_option |-> response.selected_option,
              input_value |-> response.input_value,
              error |-> response.error] IN
  /\ outbox' = <<msg>>
  /\ wire' = send(ws, socks, msg)
  /\ noFrame
  /\ handed' = [handed EXCEPT ![requestId] = @ + 1]
  /\ carried' = [carried EXCEPT ![requestId] = @ + Len(wire')]

\* handleInterventionRequest(event); startCountdown() replaces the interval
handleInterventionRequest(data) ==
  /\ interventionType' = data.intervention_type
  /\ message' = data.message
  /\ requestId' = data.request_id
  /\ taskId' = data.task_id
  /\ timeout' = timeoutOf(data)
  /\ options' = IF data.intervention_type = "confirm" THEN optionsOf(data) ELSE options
  /\ inputValue' = IF data.intervention_type = "input" THEN <<>> ELSE inputValue
  /\ visible' = TRUE
  /\ remainingTime' = timeoutOf(data)
  /\ countdownTimer' = TRUE /\ countdownLive' = stopInterval(countdownTimer, countdownLive) + 1

\* the names of the CustomEvents of handleMessage
EventNames == {"task-step-update", "task-status-change", "task-cancelled",
               "human-intervention-needed"}

\* window.addEventListener('human-intervention-needed', handleInterventionRequest)
\* in the dialog's setup
dialogListener ==
  [event |-> "human-intervention-needed", id |-> 0, throws |-> FALSE]

\* the listeners of window in registration order: the dialog registers in
\* its setup, the other consumers after it
Registered == (IF dlgMounted THEN <<dialogListener>> ELSE <<>>) \o listeners

RECURSIVE UpToThrow(_)
UpToThrow(L) ==
  IF L = <<>> THEN <<>>
  ELSE IF Head(L).throws THEN <<Head(L)>>
  ELSE <<Head(L)>> \o UpToThrow(Tail(L))

dispatchEventStopsAtThrow(name, detail) ==
  LET Named(l) == l.event = name
      L == UpToThrow(SelectSeq(Registered, Named))
  IN  [i \in 1..Len(L) |-> [listener |-> L[i].id, detail |-> detail]]

\* window.dispatchEvent(new CustomEvent(name, { detail })): the listener
\* calls it makes; an exception thrown by a listener is reported by the
\* event target and the next listener is called
dispatchEvent(name, detail) ==
  LET Named(l) == l.event = name
      L == SelectSeq(Registered, Named)
  IN  [i \in 1..Len(L) |-> [listener |-> L[i].id, detail |-> detail]]

\* another consumer calls window.addEventListener(l.event, callback)
addEventListener(l) ==
  /\ Len(listeners) < MaxListeners
  /\ l.id = Len(listeners) + 1
  /\ listeners' = Append(listeners, l)
  /\ noStore
  /\ UNCHANGED <<socks, ws, connected, reconnectAttempts, reconnectDelay,
                 heartbeatTimer, heartbeatLive, timers, latestUpdate, deviceStats, taskStats,
                 wsHist, nonWS>>

Callbacks == [event : EventNames, id : 1..MaxListeners, throws : BOOLEAN]

\* the payloads of the frames that carry opaque data
Payloads == {1, 2}

\* the texts of inbound frames other than step updates and intervention
\* requests: well-formed frames of every other known type, a frame of an
\* unknown type, the JSON text null, and two texts that are not JSON
Texts ==
  {"{\"type\":\"pong\"}",
   "{\"type\":\"initial_state\",\"data\":1}",
   "{\"type\":\"device_update\",\"data\":1}",
   "{\"type\":\"device_update\",\"data\":2}",
   "{\"type\":\"task_update\",\"data\":1}",
   "{\"type\":\"task_status_change\",\"data\":1}",
   "{\"type\":\"task_cancelled\",\"data\":1}",
   "{\"type\":\"bogus\",\"data\":1}",
   "null",
   "{\"type\":",
   ""}

Parsed(t, d) == [ok |-> TRUE, object |-> TRUE, type |-> t, data |-> d]
SyntaxError == [ok |-> FALSE, object |-> FALSE, type |-> "", data |-> 0]

\* JSON.parse on the texts above
JSONparse(text) ==
  CASE text = "{\"type\":\"pong\"}" -> Parsed("pong", 0)
    [] text = "{\"type\":\"initial_state\",\"data\":1}" -> Parsed("initial_state", 1)
    [] text = "{\"type\":\"device_update\",\"data\":1}" -> Parsed("device_update", 1)
    [] text = "{\"type\":\"device_update\",\"data\":2}" -> Parsed("device_update", 2)
    [] text = "{\"type\":\"task_update\",\"data\":1}" -> Parsed("task_update", 1)
    [] text = "{\"type\":\"task_status_change\",\"data\":1}" -> Parsed("task_status_change", 1)
    [] text = "{\"type\":\"task_cancelled\",\"data\":1}" -> Parsed("task_cancelled", 1)
    [] text = "{\"type\":\"bogus\",\"data\":1}" -> Parsed("bogus", 1)
    [] text = "null" -> [ok |-> TRUE, object |-> FALSE, type |-> "", data |-> 0]
    [] OTHER -> SyntaxError

KnownTypes == {"pong", "initial_state", "device_update", "task_update",
               "task_step_update", "task_status_change", "task_cancelled",
               "human_intervention_needed"}

\* the CustomEvent of a frame type
EventOf(type) ==
  CASE type = "task_step_update" -> "task-step-update"
    [] type = "task_status_change" -> "task-status-change"
    [] type = "task_cancelled" -> "task-cancelled"
    [] type = "human_intervention_needed" -> "human-intervention-needed"
    [] OTHER -> ""

handleMessageStoresUnknown(data) ==
  /\ latestUpdate' = TRUE
  /\ deviceStats' = IF data.object /\ data.type \in {"device_update", "bogus"}
                    THEN data.data ELSE deviceStats
  /\ taskStats' = IF data.object /\ data.type = "task_update"
                  THEN data.data ELSE taskStats
  /\ IF data.object /\ EventOf(data.type) # ""
     THEN /\ dispatched' = <<EventOf(data.type)>>
          /\ invoked' = dispatchEvent(EventOf(data.type), data.data)
     ELSE dispatched' = <<>> /\ invoked' = <<>>

\* handleMessage(data) for the types above; on null the read of data.type
\* throws after latestUpdate has been assigned
handleMessage(data) ==
  /\ latestUpdate' = TRUE
  /\ deviceStats' = IF data.object /\ data.type = "device_update"
                    THEN data.data ELSE deviceStats
  /\ taskStats' = IF data.object /\ data.type = "task_update"
                  THEN data.data ELSE taskStats
  /\ IF data.object /\ EventOf(data.type) # ""
     THEN /\ dispatched' = <<EventOf(data.type)>>
          /\ invoked' = dispatchEvent(EventOf(data.type), data.data)
     ELSE dispatched' = <<>> /\ invoked' = <<>>

\* ws.value.onmessage of the open socket s with event.data = text
onmessage(s, text) ==
  /\ socks[s] = "OPEN"
  /\ IF JSONparse(text).ok
     THEN handleMessage(JSONparse(text))
     ELSE /\ dispatched' = <<>> /\ invoked' = <<>>
          /\ UNCHANGED <<latestUpdate, deviceStats, taskStats>>
  /\ outbox' = <<>>
  /\ wire' = <<>>
  /\ UNCHANGED <<socks, ws, connected, reconnectAttempts, reconnectDelay,
                 heartbeatTimer, heartbeatLive, timers, listeners, wsHist, nonWS>>

\* a human_intervention_needed frame arrives on the open socket s:
\* onmessage -> handleMessage -> dispatchEvent -> the dialog's listener
ReceiveIntervention(s, data) ==
  /\ socks[s] = "OPEN"
  /\ nextRequest <= MaxRequests
  /\ data.request_id = nextRequest
  /\ nextRequest' = nextRequest + 1
  /\ IF dlgMounted
     THEN /\ handleInterventionRequest(data)
          /\ accepted' = accepted \cup {data.request_id}
          /\ ticks' = 0
     ELSE UNCHANGED <<visible, interventionType, message, options, inputValue,
                      timeout, remainingTime, requestId, taskId, countdownTimer, countdownLive,
                      accepted, ticks>>
  /\ outbox' = <<>>
  /\ wire' = <<>>
  /\ latestUpdate' = TRUE
  /\ dispatched' = <<"human-intervention-needed">>
  /\ invoked' = dispatchEvent("human-intervention-needed", data)
  /\ UNCHANGED <<dlgMounted, handed, carried>>
  /\ UNCHANGED nonDlg

expiredLate(r) == r < 0

\* remainingTime.value <= 0
expired(r) == r <= 0

\* handleTimeout()
handleTimeout ==
  /\ sendResponse([success |-> FALSE, response_type |-> interventionType,
                   selected_option |-> "", input_value |-> <<>>,
                   error |-> "Timeout"])
  /\ visible' = FALSE
  /\ inputValue' = <<>>

\* the setInterval callback of startCountdown
CountdownTick ==
  /\ countdownTimer
  /\ remainingTime' = remainingTime - 1
  /\ ticks' = ticks + 1
  /\ IF expired(remainingTime')
     THEN /\ countdownTimer' = FALSE /\ countdownLive' = stopInterval(countdownTimer, countdownLive)
          /\ handleTimeout
     ELSE /\ noStore
          /\ UNCHANGED <<countdownTimer, countdownLive, visible, inputValue, handed, carried>>
  /\ UNCHANGED <<dlgMounted, interventionType, message, options, timeout,
                 requestId, taskId, nextRequest, accepted>>
  /\ UNCHANGED nonDlg

handleConfirmNoStop(selectedOption) ==
  /\ UNCHANGED <<countdownTimer, countdownLive>>
  /\ sendResponse([success |-> TRUE, response_type |-> "confirm",
                   selected_option |-> selectedOption, input_value |-> <<>>,
                   error |-> ""])
  /\ visible' = FALSE
  /\ UNCHANGED inputValue

\* handleConfirm(selectedOption): a click on one of the option buttons
handleConfirm(selectedOption) ==
  /\ countdownTimer' = FALSE /\ countdownLive' = stopInterval(countdownTimer, countdownLive)
  /\ sendResponse([success |-> TRUE, response_type |-> "confirm",
                   selected_option |-> selectedOption, input_value |-> <<>>,
                   error |-> ""])
  /\ visible' = FALSE
  /\ UNCHANGED inputValue

ClickOption(i) ==
  /\ dlgMounted /\ visible /\ interventionType = "confirm"
  /\ i \in DOMAIN options
  /\ handleConfirm(options[i])
  /\ UNCHANGED <<dlgMounted, interventionType, message, options, timeout,
                 remainingTime, requestId, taskId, nextRequest, accepted, ticks>>
  /\ UNCHANGED nonDlg

handleSubmitNoTrim ==
  IF inputValue = <<>>
  THEN /\ noStore
       /\ UNCHANGED <<countdownTimer, countdownLive, visible, inputValue, handed, carried>>
  ELSE /\ countdownTimer' = FALSE /\ countdownLive' = stopInterval(countdownTimer, countdownLive)
       /\ sendResponse([success |-> TRUE, response_type |-> "input",
                        selected_option |-> "", input_value |-> inputValue,
                        error |-> ""])
       /\ visible' = FALSE
       /\ inputValue' = <<>>

\* handleSubmit(): the submit button or Enter in the input field
handleSubmit ==
  IF trim(inputValue) = <<>>
  THEN /\ noStore
       /\ UNCHANGED <<countdownTimer, countdownLive, visible, inputValue, handed, carried>>
  ELSE /\ countdownTimer' = FALSE /\ countdownLive' = stopInterval(countdownTimer, countdownLive)
       /\ sendResponse([success |-> TRUE, response_type |-> "input",
                        selected_option |-> "", input_value |-> inputValue,
                        error |-> ""])
       /\ visible' = FALSE
       /\ inputValue' = <<>>

ClickSubmit ==
  /\ dlgMounted /\ visible /\ interventionType = "input"
  /\ handleSubmit
  /\ UNCHANGED <<dlgMounted, interventionType, message, options, timeout,
                 remainingTime, requestId, taskId, nextRequest, accepted, ticks>>
  /\ UNCHANGED nonDlg

\* handleCancel(): the cancel button of the input form
handleCancel ==
  /\ countdownTimer' = FALSE /\ countdownLive' = stopInterval(countdownTimer, countdownLive)
  /\ sendResponse([success |-> FALSE, response_type |-> interventionType,
                   selected_option |-> "", input_value |-> <<>>,
                   error |-> "User cancelled"])
  /\ visible' = FALSE
  /\ inputValue' = <<>>

ClickCancel ==
  /\ dlgMounted /\ visible /\ interventionType = "input"
  /\ handleCancel
  /\ UNCHANGED <<dlgMounted, interventionType, message, options, timeout,
                 remainingTime, requestId, taskId, nextRequest, accepted, ticks>>
  /\ UNCHANGED nonDlg

\* v-model="inputValue": the operator edits the input field
TypeInput(t) ==
  /\ dlgMounted /\ visible /\ interventionType = "input"
  /\ inputValue' = t
  /\ noStore
  /\ UNCHANGED <<dlgMounted, visible, interventionType, message, options,
                 timeout, remainingTime, requestId, taskId, countdownTimer, countdownLive,
                 nextRequest, handed, carried, accepted, ticks>>
  /\ UNCHANGED nonDlg

\* onUnmounted of the dialog
DlgUnmount ==
  /\ dlgMounted
  /\ dlgMounted' = FALSE
  /\ countdownTimer' = FALSE /\ countdownLive' = stopInterval(countdownTimer, countdownLive)
  /\ noStore
  /\ UNCHANGED <<visible, interventionType, message, options, inputValue,
                 timeout, remainingTime, requestId, taskId, nextRequest, handed,
                 carried, accepted, ticks>>
  /\ UNCHANGED nonDlg

InitDlg ==
  /\ dlgMounted = TRUE
  /\ visible = FALSE
  /\ interventionType = ""
  /\ message = <<>>
  /\ options = <<>>
  /\ inputValue = <<>>
  /\ timeout = DefaultTimeout
  /\ remainingTime = 0
  /\ requestId = 0
  /\ taskId = ""
  /\ countdownTimer = FALSE
  /\ countdownLive = 0
  /\ nextRequest = 1
  /\ handed = [r \in 0..MaxRequests |-> 0]
  /\ carried = [r \in 0..MaxRequests |-> 0]
  /\ accepted = {}
  /\ ticks = 0

\* ==================================== TaskRealTimePreview (unnamed/part_002)
Statuses == {"pending", "running", "waiting_for_user", "completed", "failed",
             "cancelled"}
Terminal == {"completed", "failed", "cancelled"}

\* pendingQuestion.value or task.pending_question: null, or a question with
\* its (possibly empty) list of options
NoQuestion == [present |-> FALSE, options |-> <<>>]
QuestionOptions == {<<>>, <<"yes", "no">>}
Question(o) == [present |-> TRUE, options |-> o]

NoTask == [present |-> FALSE, task_id |-> "", status |-> "",
           pending_question |-> NoQuestion]

\* the steps of task tid as the server returns them when it holds n of them;
\* the server only ever appends, so step i of a task never changes
StepsOf(tid, n) == [i \in 1..n |-> [id |-> <<tid, i>>, isNew |-> FALSE]]
Ids(list) == [i \in DOMAIN list |-> list[i].id]

\* an async function of the view suspended at an await:
\*   fn    "mount" (onMounted -> loadTask) or "poll" (one interval callback)
\*   pc    the request it waits for: "getTask" or "getSteps"
\*   tid   the task id the request was made for
\*   st    "sent", or "ok" once the backend has produced its answer
\*   status, n   the answer: task.status, or the number of steps returned
\*   q     the answer: task.pending_question
\*   task  status of the task record the callback fetched before (poll only)
Call(fn, pc, tid, task) ==
  [fn |-> fn, pc |-> pc, tid |-> tid, st |-> "sent", status |-> "", n |-> 0,
   q |-> NoQuestion, task |-> task]
InFlight == BagCardinality(calls)
Add(c) == calls (+) SetToBag({c})
Replace(c, d) == (calls (-) SetToBag({c})) (+) SetToBag({d})
Drop(c) == calls (-) SetToBag({c})

\* ---- the backend
ServerTransitions ==
  {<<"pending", "running">>, <<"running", "waiting_for_user">>,
   <<"waiting_for_user", "running">>, <<"running", "completed">>,
   <<"running", "failed">>, <<"running", "cancelled">>,
   <<"waiting_for_user", "cancelled">>, <<"pending", "cancelled">>}

\* the agent executes one more step of the observed task
ServerAppendStep ==
  /\ propTaskId # ""
  /\ server[propTaskId].status = "running"
  /\ server[propTaskId].n < MaxSteps
  /\ server' = [server EXCEPT ![propTaskId].n = @ + 1]
  /\ UNCHANGED <<tvVars, nonTV>>

\* the observed task changes its status on the backend
ServerSetStatus(to) ==
  /\ propTaskId # ""
  /\ <<server[propTaskId].status, to>> \in ServerTransitions
  /\ server' = [server EXCEPT ![propTaskId].status = to]
  /\ UNCHANGED <<tvVars, nonTV>>

\* the agent of the observed task settles on the options of the question it
\* asks when it next waits for the user
ServerPlanQuestion(o) ==
  /\ propTaskId # ""
  /\ server[propTaskId].status \in {"pending", "running"}
  /\ o # server[propTaskId].ask
  /\ server' = [server EXCEPT ![propTaskId].ask = o]
  /\ UNCHANGED <<tvVars, nonTV>>

\* pending_question of a task record: set while the task waits for the user
PendingQuestionOf(rec) ==
  IF rec.status = "waiting_for_user" THEN Question(rec.ask) ELSE NoQuestion

\* the backend answers a request that is in flight; the answer reaches the
\* view later, possibly after the answer to a request made after it.
\* POST /cancel is accepted for a task that has not finished and cancels it,
\* POST /answer is accepted for a task that waits for the user and resumes it
ServeCall(c) ==
  /\ BagIn(c, calls)
  /\ c.st = "sent"
  /\ c.tid # ""
  /\ c.pc = "cancel" => server[c.tid].status \notin Terminal
  /\ c.pc = "answer" => server[c.tid].status = "waiting_for_user"
  /\ calls' = Replace(c,
       CASE c.pc = "getTask" -> [c EXCEPT !.st = "ok", !.status = server[c.tid].status,
                                          !.q = PendingQuestionOf(server[c.tid])]
         [] c.pc = "getSteps" -> [c EXCEPT !.st = "ok", !.n = server[c.tid].n]
         [] OTHER -> [c EXCEPT !.st = "ok"])
  /\ server' = CASE c.pc = "cancel" -> [server EXCEPT ![c.tid].status = "cancelled"]
                 [] c.pc = "answer" -> [server EXCEPT ![c.tid].status = "running"]
                 [] OTHER -> server
  /\ UNCHANGED <<tvPhase, propTaskId, elapsedTime, currentTask, wasTerminal, steps, pollingTimer, pollLive,
                 elapsedTimer, elapsedLive, askVars, busyVars, nonTV>>

\* ---- the view
\* the awaited request of call c settles: with the backend's answer
\* (ok), or by rejecting (network or HTTP error) before any answer
Settles(c, ok) == BagIn(c, calls) /\ c.st = (IF ok THEN "ok" ELSE "sent")

\* watch(() => currentTask.value?.status): runs after the handler that
\* changed the status from `old` to `new`, and reads the new currentTask
statusWatch(old, new) ==
  IF new # old /\ new = "waiting_for_user" /\ currentTask'.pending_question.present
  THEN /\ pendingQuestion' = currentTask'.pending_question
       /\ showQuestionDialog' = TRUE
       /\ userSelection' = ""
       /\ userInput' = <<>>
  ELSE /\ showQuestionDialog' =
            (showQuestionDialog /\ ~(old = "waiting_for_user" /\ new = "running"))
       /\ UNCHANGED <<pendingQuestion, userSelection, userInput>>

\* the rest of onMounted after `await loadTask()`
startPollingUnguarded(start) ==
  /\ pollingTimer' = (pollingTimer \/ start)
  /\ pollLive' = IF start THEN pollLive + 1 ELSE pollLive

\* `if (start) startPolling()`: startPolling returns if the timer exists
startPolling(start) ==
  /\ pollingTimer' = (pollingTimer \/ start)
  /\ pollLive' = IF start /\ ~pollingTimer THEN pollLive + 1 ELSE pollLive

\* startElapsedTimer(): returns if the timer exists
startElapsedTimer ==
  /\ elapsedTimer' = TRUE
  /\ elapsedLive' = IF elapsedTimer THEN elapsedLive ELSE elapsedLive + 1

afterMountLoad(task) ==
  /\ startPolling(task.present /\ task.status = "running")
  /\ startElapsedTimer

\* the rest of the taskId watcher after `await loadTask()`:
\* stopElapsedTimer(), startElapsedTimer(), startPolling() if running
afterWatchLoad(task) ==
  /\ elapsedTimer' = TRUE
  /\ elapsedLive' = stopInterval(elapsedTimer, elapsedLive) + 1
  /\ startPolling(task.present /\ task.status = "running")

\* the caller's code after `await loadTask()`: onMounted, the watcher of
\* props.taskId, or submitAnswer
afterLoad(fn, task) ==
  CASE fn = "mount" -> afterMountLoad(task) /\ UNCHANGED <<isSubmitting, answerFailed>>
    [] fn = "watch" -> afterWatchLoad(task) /\ UNCHANGED <<isSubmitting, answerFailed>>
    [] fn = "submit" -> /\ isSubmitting' = FALSE
                        /\ UNCHANGED <<answerFailed, pollingTimer, pollLive,
                                       elapsedTimer, elapsedLive>>

Loaders == {"mount", "watch", "submit"}

\* onMounted up to the first await of loadTask
Mount ==
  /\ tvPhase = "created"
  /\ tvPhase' = "mounted"
  /\ IF propTaskId = ""
     THEN /\ afterMountLoad(currentTask)
          /\ UNCHANGED calls
     ELSE /\ calls' = Add(Call("mount", "getTask", propTaskId, ""))
          /\ UNCHANGED <<pollingTimer, pollLive, elapsedTimer, elapsedLive>>
  /\ UNCHANGED <<propTaskId, elapsedTime, currentTask, wasTerminal, steps, askVars, busyVars, tvEnv, nonTV>>

\* loadTask: `currentTask.value = await taskApi.get(props.taskId)` returns
LoadTaskResult(c, ok) ==
  /\ Settles(c, ok)
  /\ c.fn \in Loaders /\ c.pc = "getTask"
  /\ IF ok
     THEN /\ currentTask' = [present |-> TRUE, task_id |-> c.tid, status |-> c.status,
                               pending_question |-> c.q]
          /\ wasTerminal' = (wasTerminal \/ c.status \in Terminal)
          /\ statusWatch(currentTask.status, c.status)
          /\ calls' = Replace(c, Call(c.fn, "getSteps", propTaskId, c.status))
          /\ UNCHANGED <<pollingTimer, pollLive, elapsedTimer, elapsedLive, isSubmitting, answerFailed>>
     ELSE /\ calls' = Drop(c)
          /\ afterLoad(c.fn, currentTask)
          /\ UNCHANGED <<currentTask, wasTerminal, askVars>>
  /\ UNCHANGED <<tvPhase, propTaskId, elapsedTime, steps, isCancelling, tvEnv, nonTV>>

\* loadTask: `await taskApi.getSteps(props.taskId)` returns
LoadStepsResult(c, ok) ==
  /\ Settles(c, ok)
  /\ c.fn \in Loaders /\ c.pc = "getSteps"
  /\ steps' = IF ok THEN StepsOf(c.tid, c.n) ELSE steps
  /\ calls' = Drop(c)
  /\ afterLoad(c.fn, currentTask)
  /\ UNCHANGED <<tvPhase, propTaskId, elapsedTime, currentTask, wasTerminal, askVars, isCancelling, tvEnv,
                 nonTV>>

\* the setInterval callback of startPolling up to its first await
PollTick ==
  /\ pollingTimer
  /\ IF propTaskId = ""
     THEN pollingTimer' = FALSE /\ pollLive' = stopInterval(pollingTimer, pollLive) /\ UNCHANGED calls
     ELSE /\ InFlight < MaxInflight
          /\ calls' = Add(Call("poll", "getTask", propTaskId, ""))
          /\ UNCHANGED <<pollingTimer, pollLive>>
  /\ UNCHANGED <<tvPhase, propTaskId, elapsedTime, currentTask, wasTerminal, steps, elapsedTimer, elapsedLive, askVars,
                 busyVars, tvEnv, nonTV>>

PollTaskResultStopsOnError(c, ok) ==
  /\ Settles(c, ok)
  /\ c.fn = "poll" /\ c.pc = "getTask"
  /\ IF ok
     THEN /\ currentTask' = IF currentTask.present
                            THEN [currentTask EXCEPT !.status = c.status,
                                                     !.pending_question = c.q]
                            ELSE currentTask
          /\ wasTerminal' = (wasTerminal \/ currentTask'.status \in Terminal)
          /\ statusWatch(currentTask.status, currentTask'.status)
          /\ calls' = Replace(c, Call("poll", "getSteps", propTaskId, c.status))
          /\ UNCHANGED <<pollingTimer, pollLive>>
     ELSE /\ calls' = Drop(c)
          /\ pollingTimer' = FALSE /\ pollLive' = stopInterval(pollingTimer, pollLive)
          /\ UNCHANGED <<currentTask, wasTerminal, askVars>>
  /\ UNCHANGED <<tvPhase, propTaskId, elapsedTime, steps, elapsedTimer, elapsedLive, busyVars, tvEnv, nonTV>>

\* the poll callback: `const task = await taskApi.get(props.taskId)` returns
PollTaskResult(c, ok) ==
  /\ Settles(c, ok)
  /\ c.fn = "poll" /\ c.pc = "getTask"
  /\ IF ok
     THEN /\ currentTask' = IF currentTask.present
                            THEN [currentTask EXCEPT !.status = c.status,
                                                     !.pending_question = c.q]
                            ELSE currentTask
          /\ wasTerminal' = (wasTerminal \/ currentTask'.status \in Terminal)
          /\ statusWatch(currentTask.status, currentTask'.status)
          /\ calls' = Replace(c, Call("poll", "getSteps", propTaskId, c.status))
     ELSE /\ calls' = Drop(c)
          /\ UNCHANGED <<currentTask, wasTerminal, askVars>>
  /\ UNCHANGED <<tvPhase, propTaskId, elapsedTime, steps, pollingTimer, pollLive, elapsedTimer, elapsedLive, busyVars,
                 tvEnv, nonTV>>

mergePollAnyLength(local, fetched) ==
  IF Len(fetched) # Len(local)
  THEN [i \in DOMAIN fetched |-> [fetched[i] EXCEPT !.isNew = (i > Len(local))]]
  ELSE local

mergePollSameLength(local, fetched) ==
  IF Len(fetched) >= Len(local)
  THEN [i \in DOMAIN fetched |-> [fetched[i] EXCEPT !.isNew = (i > Len(local))]]
  ELSE local

\* the list a poll tick installs when it fetched `fetched`
mergePoll(local, fetched) ==
  IF Len(fetched) > Len(local)
  THEN [i \in DOMAIN fetched |-> [fetched[i] EXCEPT !.isNew = (i > Len(local))]]
  ELSE local

\* the poll callback: `await taskApi.getSteps(props.taskId)` returns
PollStepsResult(c, ok) ==
  /\ Settles(c, ok)
  /\ c.fn = "poll" /\ c.pc = "getSteps"
  /\ calls' = Drop(c)
  /\ IF ok
     THEN /\ steps' = mergePoll(steps, StepsOf(c.tid, c.n))
          /\ IF c.task \in Terminal
             THEN pollingTimer' = FALSE /\ pollLive' = stopInterval(pollingTimer, pollLive) /\ elapsedTimer' = FALSE /\ elapsedLive' = stopInterval(elapsedTimer, elapsedLive)
             ELSE UNCHANGED <<pollingTimer, pollLive, elapsedTimer, elapsedLive>>
     ELSE UNCHANGED <<steps, pollingTimer, pollLive, elapsedTimer, elapsedLive>>
  /\ UNCHANGED <<tvPhase, propTaskId, elapsedTime, currentTask, wasTerminal, askVars, busyVars, tvEnv, nonTV>>

\* setTimeout(() => { step.isNew = false }, 1000) of a step that is shown
ClearIsNew(i) ==
  /\ i \in DOMAIN steps
  /\ steps[i].isNew
  /\ steps' = [steps EXCEPT ![i].isNew = FALSE]
  /\ UNCHANGED <<tvPhase, propTaskId, elapsedTime, currentTask, wasTerminal, pollingTimer, pollLive, elapsedTimer, elapsedLive,
                 calls, askVars, busyVars, tvEnv, nonTV>>

\* onUnmounted: stopPolling(), stopElapsedTimer(); requests that are
\* awaited keep their continuations
Unmount ==
  /\ tvPhase = "mounted"
  /\ tvPhase' = "unmounted"
  /\ pollingTimer' = FALSE /\ pollLive' = stopInterval(pollingTimer, pollLive)
  /\ elapsedTimer' = FALSE /\ elapsedLive' = stopInterval(elapsedTimer, elapsedLive)
  /\ UNCHANGED <<propTaskId, elapsedTime, currentTask, wasTerminal, steps,
                 calls, askVars, busyVars, tvEnv, nonTV>>

\* the setInterval callback of startElapsedTimer; a running task has its
\* started_at, and the clock reading does not go back
ElapsedTick ==
  /\ elapsedTimer
  /\ IF currentTask.present /\ currentTask.status = "running"
     THEN \E v \in elapsedTime..MaxElapsed : elapsedTime' = v
     ELSE UNCHANGED elapsedTime
  /\ UNCHANGED <<tvPhase, propTaskId, currentTask, wasTerminal, steps,
                 pollingTimer, pollLive, elapsedTimer, elapsedLive, calls, askVars, busyVars, tvEnv,
                 nonTV>>

\* watch(() => props.taskId): the parent makes the view observe task t
\* ("" is null); the callback runs up to the first await of loadTask
SwitchTask(t) ==
  /\ tvPhase = "mounted"
  /\ t # propTaskId
  /\ propTaskId' = t
  /\ pollingTimer' = FALSE /\ pollLive' = stopInterval(pollingTimer, pollLive)
  /\ IF t # ""
     THEN /\ InFlight < MaxInflight
          /\ steps' = <<>>
          /\ elapsedTime' = 0
          /\ wasTerminal' = FALSE
          /\ calls' = Add(Call("watch", "getTask", t, ""))
     ELSE UNCHANGED <<steps, elapsedTime, wasTerminal, calls>>
  /\ UNCHANGED <<tvPhase, currentTask, elapsedTimer, elapsedLive, askVars, busyVars, tvEnv,
                 nonTV>>

\* cancelTask() up to `await taskApi.cancel(...)`: the button in the card
\* header (shown while the status is running) or the one in the ask-user
\* dialog; a button that shows its loading state takes no click
ClickCancelTask ==
  /\ tvPhase = "mounted"
  /\ \/ currentTask.present /\ currentTask.status = "running" /\ ~isCancelling
     \/ showQuestionDialog /\ ~isSubmitting
  /\ IF currentTask.present
     THEN /\ InFlight < MaxInflight
          /\ isCancelling' = TRUE
          /\ calls' = Add(Call("cancel", "cancel", currentTask.task_id, ""))
     ELSE UNCHANGED <<isCancelling, calls>>
  /\ UNCHANGED <<tvPhase, propTaskId, elapsedTime, currentTask, wasTerminal, steps, pollingTimer, pollLive,
                 elapsedTimer, elapsedLive, askVars, isSubmitting, answerFailed, tvEnv, nonTV>>

\* cancelTask(): `await taskApi.cancel(...)` returns
CancelResult(c, ok) ==
  /\ Settles(c, ok)
  /\ c.fn = "cancel"
  /\ calls' = Drop(c)
  /\ IF ok
     THEN /\ currentTask' = [currentTask EXCEPT !.status = "cancelled"]
          /\ wasTerminal' = TRUE
          /\ showQuestionDialog' = FALSE
     ELSE UNCHANGED <<currentTask, wasTerminal, showQuestionDialog>>
  /\ isCancelling' = FALSE
  /\ UNCHANGED <<tvPhase, propTaskId, elapsedTime, steps, pollingTimer, pollLive, elapsedTimer, elapsedLive,
                 pendingQuestion, userSelection, userInput, isSubmitting, answerFailed, tvEnv,
                 nonTV>>

hasOptions(q) == q.present /\ Len(q.options) > 0

\* the computed canSubmit
canSubmit(q, selection, input) ==
  IF hasOptions(q) THEN selection # "" ELSE trim(input) # <<>>

\* userSelection.value || userInput.value.trim(); "" when both are empty
answerOf(selection, input) ==
  IF selection # "" THEN <<selection>> ELSE trim(input)

\* v-model="userSelection": the operator picks a radio button
SelectOption(i) ==
  /\ tvPhase = "mounted" /\ showQuestionDialog
  /\ hasOptions(pendingQuestion)
  /\ i \in DOMAIN pendingQuestion.options
  /\ userSelection' = pendingQuestion.options[i]
  /\ UNCHANGED <<tvPhase, propTaskId, elapsedTime, currentTask, wasTerminal, steps, pollingTimer, pollLive,
                 elapsedTimer, elapsedLive, calls, showQuestionDialog, pendingQuestion,
                 userInput, busyVars, tvEnv, nonTV>>

\* v-model="userInput": the operator edits the answer text
TypeAnswer(t) ==
  /\ tvPhase = "mounted" /\ showQuestionDialog
  /\ ~hasOptions(pendingQuestion)
  /\ userInput' = t
  /\ UNCHANGED <<tvPhase, propTaskId, elapsedTime, currentTask, wasTerminal, steps, pollingTimer, pollLive,
                 elapsedTimer, elapsedLive, calls, showQuestionDialog, pendingQuestion,
                 userSelection, busyVars, tvEnv, nonTV>>

\* submitAnswer() up to `await taskApi.submitAnswer(...)`; the button is
\* disabled unless canSubmit, and takes no click while it shows loading
ClickSubmitAnswer ==
  /\ tvPhase = "mounted" /\ showQuestionDialog
  /\ canSubmit(pendingQuestion, userSelection, userInput)
  /\ ~isSubmitting
  /\ IF answerOf(userSelection, userInput) = <<>>
     THEN UNCHANGED <<isSubmitting, answerFailed, calls>>
     ELSE /\ InFlight < MaxInflight
          /\ isSubmitting' = TRUE
          /\ answerFailed' = FALSE
          /\ calls' = Add(Call("submit", "answer", propTaskId, ""))
  /\ UNCHANGED <<tvPhase, propTaskId, elapsedTime, currentTask, wasTerminal, steps, pollingTimer, pollLive,
                 elapsedTimer, elapsedLive, askVars, isCancelling, tvEnv, nonTV>>

SubmitResultClosesOnError(c, ok) ==
  /\ Settles(c, ok)
  /\ c.fn = "submit" /\ c.pc = "answer"
  /\ showQuestionDialog' = FALSE
  /\ IF ok
     THEN IF propTaskId = ""
          THEN calls' = Drop(c) /\ isSubmitting' = FALSE /\ UNCHANGED answerFailed
          ELSE /\ calls' = Replace(c, Call("submit", "getTask", propTaskId, ""))
               /\ UNCHANGED <<isSubmitting, answerFailed>>
     ELSE /\ calls' = Drop(c)
          /\ isSubmitting' = FALSE
          /\ answerFailed' = TRUE
  /\ UNCHANGED <<tvPhase, propTaskId, elapsedTime, currentTask, wasTerminal,
                 steps, pollingTimer, pollLive, elapsedTimer, elapsedLive,
                 pendingQuestion, userSelection, userInput, isCancelling, tvEnv,
                 nonTV>>

\* submitAnswer(): `await taskApi.submitAnswer(...)` returns; on success the
\* dialog closes and loadTask() starts
SubmitResult(c, ok) ==
  /\ Settles(c, ok)
  /\ c.fn = "submit" /\ c.pc = "answer"
  /\ IF ok
     THEN /\ showQuestionDialog' = FALSE
          /\ IF propTaskId = ""
             THEN calls' = Drop(c) /\ isSubmitting' = FALSE /\ UNCHANGED answerFailed
             ELSE /\ calls' = Replace(c, Call("submit", "getTask", propTaskId, ""))
                  /\ UNCHANGED <<isSubmitting, answerFailed>>
     ELSE /\ calls' = Drop(c)
          /\ isSubmitting' = FALSE
          /\ answerFailed' = TRUE
          /\ UNCHANGED showQuestionDialog
  /\ UNCHANGED <<tvPhase, propTaskId, elapsedTime, currentTask, wasTerminal, steps, pollingTimer, pollLive,
                 elapsedTimer, elapsedLive, pendingQuestion, userSelection, userInput,
                 isCancelling, tvEnv, nonTV>>

ReceiveStepUpdateAssign(s, detail) ==
  /\ socks[s] = "OPEN"
  /\ outbox' = <<>>
  /\ wire' = <<>>
  /\ latestUpdate' = TRUE
  /\ dispatched' = <<"task-step-update">>
  /\ invoked' = dispatchEvent("task-step-update", detail)
  /\ steps' = [i \in 1..(IF detail.step > Len(steps) THEN detail.step ELSE Len(steps)) |->
                IF i = detail.step THEN [id |-> <<detail.task_id, i>>, isNew |-> TRUE]
                ELSE IF i <= Len(steps) THEN steps[i]
                ELSE [id |-> <<"", 0>>, isNew |-> FALSE]]
  /\ UNCHANGED <<socks, ws, connected, reconnectAttempts, reconnectDelay,
                 heartbeatTimer, heartbeatLive, timers, deviceStats, taskStats, listeners,
                 wsHist, dlgVars, dlgHist, tvPhase,
                 propTaskId, elapsedTime, currentTask, wasTerminal, pollingTimer, pollLive, elapsedTimer, elapsedLive, calls,
                 askVars, busyVars, tvEnv>>

\* a task_step_update frame arrives on the open socket s: handleMessage
\* dispatches 'task-step-update' on window, which the view does not listen to
ReceiveStepUpdate(s, detail) ==
  /\ socks[s] = "OPEN"
  /\ outbox' = <<>>
  /\ wire' = <<>>
  /\ latestUpdate' = TRUE
  /\ dispatched' = <<"task-step-update">>
  /\ invoked' = dispatchEvent("task-step-update", detail)
  /\ UNCHANGED <<socks, ws, connected, reconnectAttempts, reconnectDelay,
                 heartbeatTimer, heartbeatLive, timers, deviceStats, taskStats, listeners,
                 wsHist, nonWS>>

\* the data of a task_step_update frame
StepUpdates == [task_id : TaskIds, step : 1..MaxSteps]

InitTV ==
  /\ tvPhase = "created"
  /\ propTaskId = "A"
  /\ currentTask = NoTask
  /\ steps = <<>>
  /\ pollingTimer = FALSE
  /\ pollLive = 0
  /\ elapsedTimer = FALSE
  /\ elapsedLive = 0
  /\ elapsedTime = 0
  /\ wasTerminal = FALSE
  /\ calls = EmptyBag
  /\ showQuestionDialog = FALSE
  /\ pendingQuestion = NoQuestion
  /\ userSelection = ""
  /\ userInput = <<>>
  /\ isCancelling = FALSE
  /\ isSubmitting = FALSE
  /\ answerFailed = FALSE
  /\ server = [t \in TaskIds |-> [status |-> "pending", n |-> 0,
                                  ask |-> <<"yes", "no">>]]

Init == InitWS /\ InitDlg /\ InitTV

NextWS ==
  \/ Connect
  \/ Disconnect
  \/ HeartbeatTick
  \/ \E s \in Socks : SocketOpen(s)
  \/ \E s \in Socks : SocketClose(s)
  \/ \E d \in BagToSet(timers) : ReconnectTimer(d)

Next == NextWS

\* the connection store on its own
Spec == Init /\ [][Next]_vars

\* the application's first connect() call
FirstConnect == ws = 0 /\ timers = EmptyBag /\ Connect

\* the intervention dialog on a connection that is opened once
NextDlg ==
  \/ FirstConnect
  \/ \E s \in Socks : SocketOpen(s)
  \/ \E s \in Socks : SocketClose(s)
  \/ \E s \in Socks : \E data \in Details(nextRequest) : ReceiveIntervention(s, data)
  \/ CountdownTick
  \/ \E i \in 1..2 : ClickOption(i)
  \/ ClickSubmit
  \/ ClickCancel
  \/ \E t \in InputTexts : TypeInput(t)
  \/ DlgUnmount

SpecDlg == Init /\ [][NextDlg]_vars

\* the task view observing one task whose agent does not ask the user:
\* baseline load, polls and pushes
NextPoll ==
  \/ FirstConnect
  \/ \E s \in Socks : SocketOpen(s)
  \/ \E s \in Socks : \E detail \in StepUpdates : ReceiveStepUpdate(s, detail)
  \/ ServerAppendStep
  \/ \E to \in Statuses \ {"waiting_for_user"} : ServerSetStatus(to)
  \/ \E c \in BagToSet(calls) : ServeCall(c)
  \/ Mount
  \/ \E c \in BagToSet(calls) : \E ok \in BOOLEAN : LoadTaskResult(c, ok)
  \/ \E c \in BagToSet(calls) : \E ok \in BOOLEAN : LoadStepsResult(c, ok)
  \/ PollTick
  \/ \E c \in BagToSet(calls) : \E ok \in BOOLEAN : PollTaskResult(c, ok)
  \/ \E c \in BagToSet(calls) : \E ok \in BOOLEAN : PollStepsResult(c, ok)
  \/ \E i \in 1..MaxSteps : ClearIsNew(i)

SpecPoll == Init /\ [][NextPoll]_vars

\* the task view observing one task whose agent asks the user: baseline
\* load, polls, the ask-user dialog and the cancel buttons
NextAsk ==
  \/ \E to \in Statuses : ServerSetStatus(to)
  \/ \E o \in QuestionOptions : ServerPlanQuestion(o)
  \/ \E c \in BagToSet(calls) : ServeCall(c)
  \/ Mount
  \/ \E c \in BagToSet(calls) : \E ok \in BOOLEAN : LoadTaskResult(c, ok)
  \/ \E c \in BagToSet(calls) : \E ok \in BOOLEAN : LoadStepsResult(c, ok)
  \/ PollTick
  \/ \E c \in BagToSet(calls) : \E ok \in BOOLEAN : PollTaskResult(c, ok)
  \/ \E c \in BagToSet(calls) : \E ok \in BOOLEAN : PollStepsResult(c, ok)
  \/ \E i \in 1..2 : SelectOption(i)
  \/ \E t \in InputTexts : TypeAnswer(t)
  \/ ClickSubmitAnswer
  \/ \E c \in BagToSet(calls) : \E ok \in BOOLEAN : SubmitResult(c, ok)
  \/ ClickCancelTask
  \/ \E c \in BagToSet(calls) : \E ok \in BOOLEAN : CancelResult(c, ok)

SpecAsk == Init /\ [][NextAsk]_vars

\* the task view observing one task whose agent records steps and asks the
\* user a question with options: baseline load, polls, the answer and the
\* reload that follows it
NextReload ==
  \/ ServerAppendStep
  \/ \E to \in Statuses : ServerSetStatus(to)
  \/ \E c \in BagToSet(calls) : ServeCall(c)
  \/ Mount
  \/ \E c \in BagToSet(calls) : \E ok \in BOOLEAN : LoadTaskResult(c, ok)
  \/ \E c \in BagToSet(calls) : \E ok \in BOOLEAN : LoadStepsResult(c, ok)
  \/ PollTick
  \/ \E c \in BagToSet(calls) : \E ok \in BOOLEAN : PollTaskResult(c, ok)
  \/ \E c \in BagToSet(calls) : \E ok \in BOOLEAN : PollStepsResult(c, ok)
  \/ \E i \in 1..2 : SelectOption(i)
  \/ ClickSubmitAnswer
  \/ \E c \in BagToSet(calls) : \E ok \in BOOLEAN : SubmitResult(c, ok)

SpecReload == Init /\ [][NextReload]_vars

\* the task view observing one task that runs to an end while the elapsed
\* timer ticks: baseline load and polls
NextElapsed ==
  \/ \E to \in Statuses \ {"waiting_for_user"} : ServerSetStatus(to)
  \/ \E c \in BagToSet(calls) : ServeCall(c)
  \/ Mount
  \/ \E c \in BagToSet(calls) : \E ok \in BOOLEAN : LoadTaskResult(c, ok)
  \/ \E c \in BagToSet(calls) : \E ok \in BOOLEAN : LoadStepsResult(c, ok)
  \/ PollTick
  \/ \E c \in BagToSet(calls) : \E ok \in BOOLEAN : PollTaskResult(c, ok)
  \/ \E c \in BagToSet(calls) : \E ok \in BOOLEAN : PollStepsResult(c, ok)
  \/ ElapsedTick

SpecElapsed == Init /\ [][NextElapsed]_vars

\* the same view on a backend that keeps answering: the component is
\* mounted, every request is served, and a request made again and again is
\* answered successfully at some point
SpecLoadFair ==
  /\ SpecElapsed
  /\ WF_vars(Mount)
  /\ WF_vars(\E c \in BagToSet(calls) : ServeCall(c))
  /\ SF_vars(\E c \in BagToSet(calls) : LoadTaskResult(c, TRUE))
  /\ SF_vars(\E c \in BagToSet(calls) : LoadStepsResult(c, TRUE))

\* the task view loading a task whose agent asks the user, and the operator
\* answering in the ask-user dialog
NextAnswer ==
  \/ \E to \in Statuses : ServerSetStatus(to)
  \/ \E o \in QuestionOptions : ServerPlanQuestion(o)
  \/ \E c \in BagToSet(calls) : ServeCall(c)
  \/ Mount
  \/ \E c \in BagToSet(calls) : \E ok \in BOOLEAN : LoadTaskResult(c, ok)
  \/ \E c \in BagToSet(calls) : \E ok \in BOOLEAN : LoadStepsResult(c, ok)
  \/ \E i \in 1..2 : SelectOption(i)
  \/ \E t \in InputTexts : TypeAnswer(t)
  \/ ClickSubmitAnswer
  \/ \E c \in BagToSet(calls) : \E ok \in BOOLEAN : SubmitResult(c, ok)

SpecAnswer == Init /\ [][NextAnswer]_vars

\* the task view from mount to unmount while the parent may switch the
\* observed task
NextUnmount ==
  \/ \E to \in {"running", "completed"} : ServerSetStatus(to)
  \/ \E c \in BagToSet(calls) : ServeCall(c)
  \/ Mount
  \/ \E c \in BagToSet(calls) : \E ok \in BOOLEAN : LoadTaskResult(c, ok)
  \/ \E c \in BagToSet(calls) : \E ok \in BOOLEAN : LoadStepsResult(c, ok)
  \/ PollTick
  \/ \E c \in BagToSet(calls) : \E ok \in BOOLEAN : PollTaskResult(c, ok)
  \/ \E c \in BagToSet(calls) : \E ok \in BOOLEAN : PollStepsResult(c, ok)
  \/ \E t \in TaskIds : SwitchTask(t)
  \/ Unmount

SpecUnmount == Init /\ [][NextUnmount]_vars

\* the four interval timers together: the store reconnects, the dialog gets
\* repeated confirm requests, the task view is mounted and switched from
\* task A to task B while the tasks run and end.  The server answers within
\* the poll interval: a tick finds no request in flight, and a task ends
\* between requests.
NextTimers ==
  \/ FirstConnect
  \/ \E s \in Socks : SocketOpen(s)
  \/ \E s \in Socks : SocketClose(s)
  \/ \E d \in BagToSet(timers) : ReconnectTimer(d)
  \/ \E s \in Socks : \E data \in Details(nextRequest) :
        /\ data.task_id = "A" /\ data.intervention_type = "confirm"
        /\ data.timeout = MaxTimeout /\ ~data.options.present
        /\ ReceiveIntervention(s, data)
  \/ CountdownTick
  \/ \E to \in {"running", "completed"} :
        /\ to = "completed" => InFlight = 0
        /\ ServerSetStatus(to)
  \/ \E c \in BagToSet(calls) : ServeCall(c)
  \/ Mount
  \/ \E c \in BagToSet(calls) : LoadTaskResult(c, TRUE)
  \/ \E c \in BagToSet(calls) : LoadStepsResult(c, TRUE)
  \/ InFlight = 0 /\ PollTick
  \/ \E c \in BagToSet(calls) : PollTaskResult(c, TRUE)
  \/ \E c \in BagToSet(calls) : PollStepsResult(c, TRUE)
  \/ SwitchTask("B")

SpecTimers == Init /\ [][NextTimers]_vars

\* the parent switches the task view between tasks that run to completion
\* while the first input request, made for the observed task, counts down
NextSwitch ==
  \/ FirstConnect
  \/ \E s \in Socks : SocketOpen(s)
  \/ \E s \in Socks : \E data \in Details(nextRequest) :
        /\ nextRequest = 1
        /\ data.task_id = propTaskId /\ data.intervention_type = "input"
        /\ data.timeout = MaxTimeout /\ ~data.options.present
        /\ ReceiveIntervention(s, data)
  \/ CountdownTick
  \/ \E to \in {"running", "completed"} : ServerSetStatus(to)
  \/ \E c \in BagToSet(calls) : ServeCall(c)
  \/ Mount
  \/ \E c \in BagToSet(calls) : \E ok \in BOOLEAN : LoadTaskResult(c, ok)
  \/ \E c \in BagToSet(calls) : \E ok \in BOOLEAN : LoadStepsResult(c, ok)
  \/ PollTick
  \/ \E c \in BagToSet(calls) : \E ok \in BOOLEAN : PollTaskResult(c, ok)
  \/ \E c \in BagToSet(calls) : \E ok \in BOOLEAN : PollStepsResult(c, ok)
  \/ \E t \in TaskIds \cup {""} : SwitchTask(t)

SpecSwitch == Init /\ [][NextSwitch]_vars

\* the operator cancels the observed task, from the card header or from the
\* ask-user dialog, while the first intervention request of that task is shown
NextCancel ==
  \/ FirstConnect
  \/ \E s \in Socks : SocketOpen(s)
  \/ \E s \in Socks : \E data \in Details(nextRequest) :
        /\ nextRequest = 1
        /\ data.task_id = propTaskId /\ data.timeout = MaxTimeout
        /\ ReceiveIntervention(s, data)
  \/ CountdownTick
  \/ \E i \in 1..2 : ClickOption(i)
  \/ ClickCancel
  \/ \E to \in Statuses : ServerSetStatus(to)
  \/ \E c \in BagToSet(calls) : ServeCall(c)
  \/ Mount
  \/ \E c \in BagToSet(calls) : \E ok \in BOOLEAN : LoadTaskResult(c, ok)
  \/ \E c \in BagToSet(calls) : \E ok \in BOOLEAN : LoadStepsResult(c, ok)
  \/ ClickCancelTask
  \/ \E c \in BagToSet(calls) : \E ok \in BOOLEAN : CancelResult(c, ok)

SpecCancel == Init /\ [][NextCancel]_vars

\* the store receiving frames of every kind while consumers register
\* listeners on window for a store event and for the dialog's event
NextFrames ==
  \/ FirstConnect
  \/ \E s \in Socks : SocketOpen(s)
  \/ \E s \in Socks : \E text \in Texts : onmessage(s, text)
  \/ \E s \in Socks : \E detail \in StepUpdates :
        detail.step = 1 /\ ReceiveStepUpdate(s, detail)
  \/ \E s \in Socks : \E data \in Details(nextRequest) :
        /\ nextRequest = 1
        /\ data.intervention_type = "confirm"
        /\ data.timeout = MaxTimeout /\ ~data.options.present
        /\ ReceiveIntervention(s, data)
  \/ \E l \in Callbacks :
        /\ l.event \in {"task-status-change", "human-intervention-needed"}
        /\ addEventListener(l)
  \/ DlgUnmount

SpecFrames == Init /\ [][NextFrames]_vars

\* ================================================================ claims

\* C1: for one observed task, no push delivery and no poll result ever
\* shortens the step list or changes the index or content of a step in it.
C1_StepsAppendOnly ==
  [][/\ Len(steps') >= Len(steps)
     /\ \A i \in DOMAIN steps : steps'[i].id = steps[i].id]_vars

\* a poll has extended the list and an older, shorter answer is still due
C1_Witness ==
  /\ Len(steps) >= 2
  /\ \E c \in BagToSet(calls) :
       c.fn = "poll" /\ c.pc = "getSteps" /\ c.st = "ok" /\ c.n < Len(steps)

\* C2: a poll tick whose fetched list is strictly longer than the local list
\* installs the fetched list; one whose fetched list has the same length or
\* is shorter leaves the local list as it is.
C2_PollMerge ==
  [][\A c \in BagToSet(calls) :
       PollStepsResult(c, TRUE) =>
          IF c.n > Len(steps)
          THEN Ids(steps') = Ids(StepsOf(c.tid, c.n))
          ELSE steps' = steps]_vars

\* an answer of the same length is due while a step is still flagged as new
C2_Witness ==
  /\ \E i \in DOMAIN steps : steps[i].isNew
  /\ \E c \in BagToSet(calls) :
       c.fn = "poll" /\ c.pc = "getSteps" /\ c.st = "ok" /\ c.n = Len(steps)

\* the delay min(1000 * 2^(k-1), 30000) of the k-th consecutive close
BackoffOf(k) == Min(1000 * 2^(k - 1), 30000)

Pending == visible /\ countdownTimer

\* C3: at most one human_intervention_response is sent per requestId, and
\* once the shown request has a response its countdown is stopped and the
\* prompt is closed, so neither a tick nor an operator action can send again.
C3_SingleResponse ==
  /\ \A r \in 1..MaxRequests : handed[r] <= 1
  /\ handed[requestId] >= 1 => (~countdownTimer /\ ~visible)

\* an operator answer has just resolved the request that is shown
C3_Witness ==
  /\ handed[requestId] = 1 /\ ~countdownTimer
  /\ outbox # <<>> /\ outbox[1].type = "human_intervention_response"
  /\ outbox[1].success

\* C4 as stated: an intervention event that arrives while a request is
\* pending for the task leaves the pending request and its countdown unchanged
C4_Original ==
  [][\A s \in Socks : \A data \in Details(nextRequest) :
       (Pending /\ data.task_id = taskId /\ ReceiveIntervention(s, data))
         => UNCHANGED <<requestId, taskId, message, options, remainingTime>>]_vars

\* C5: while a request with timeout n >= 1 is counting down, remainingTime
\* is n minus the ticks so far; the tick that brings it to zero (the n-th)
\* hands exactly one {success:false, error:"Timeout"} response with the
\* request's requestId and taskId to the connection, stops the countdown and
\* closes the prompt; earlier ticks send nothing.
C5_TimeoutResponse ==
  [][/\ countdownTimer => (remainingTime >= 1 /\ remainingTime + ticks = timeout)
     /\ CountdownTick =>
          IF remainingTime = 1
          THEN /\ Len(outbox') = 1
               /\ outbox'[1].type = "human_intervention_response"
               /\ outbox'[1].request_id = requestId /\ outbox'[1].task_id = taskId
               /\ outbox'[1].success = FALSE /\ outbox'[1].error = "Timeout"
               /\ handed'[requestId] = 1
               /\ ticks' = timeout
               /\ ~countdownTimer' /\ ~visible'
          ELSE /\ UNCHANGED <<outbox, wire, handed>>
               /\ countdownTimer' /\ visible' = visible]_vars

\* a two-second request has just timed out
C5_Witness ==
  /\ timeout = 2 /\ ticks = 2 /\ ~visible /\ ~countdownTimer
  /\ outbox # <<>> /\ outbox[1].type = "human_intervention_response"
  /\ outbox[1].error = "Timeout"

\* C6 as stated, at the moments nothing is pending: every request that
\* became pending has exactly one response, and a transport carried it
C6_Original ==
  (dlgMounted /\ ~visible /\ ~countdownTimer) =>
     \A r \in accepted : handed[r] = 1 /\ carried[r] = 1

\* C7 (as amended): for k = 1..10 the k-th consecutive close without an
\* open in between schedules connect() after min(1000 * 2^(k-1), 30000) ms,
\* later consecutive closes schedule nothing; an open event resets the
\* delay to 1000 and the attempt counter to 0.
C7_BackoffUpToMax ==
  [][\A s \in Socks :
       /\ SocketClose(s) =>
            IF closesSinceOpen' <= 10
            THEN timers' = timers (+) SetToBag({BackoffOf(closesSinceOpen')})
            ELSE timers' = timers
       /\ SocketOpen(s) => (reconnectDelay' = 1000 /\ reconnectAttempts' = 0)]_vars

\* the sixth consecutive close: the first delay that the ceiling cuts
C7_Witness == closesSinceOpen = 6 /\ BagIn(30000, timers)

\* C7 as stated: every k-th consecutive close, for any k, schedules connect()
C7_Original ==
  [][\A s \in Socks :
       /\ SocketClose(s) =>
            timers' = timers (+) SetToBag({BackoffOf(closesSinceOpen')})
       /\ SocketOpen(s) => (reconnectDelay' = 1000 /\ reconnectAttempts' = 0)]_vars

NoTimerAdded == BagCardinality(timers') <= BagCardinality(timers)

C9_Original == disconnected => (ws = 0 /\ ~connected /\ ~heartbeatTimer)

\* C10 as stated: connect() while the transport is open or connecting
\* changes nothing
C10_Original ==
  [][(ws # 0 /\ socks[ws] \in {"OPEN", "CONNECTING"} /\ Connect)
       => UNCHANGED <<ws, socks, connected, reconnectAttempts, reconnectDelay>>]_vars

\* C11 as stated: in every state at most one transport is connecting or open
C11_Original ==
  Cardinality({s \in Socks : socks[s] \in {"CONNECTING", "OPEN"}}) <= 1

\* C12 as stated: while a task is tracked, a pushed step whose position is
\* the current length of the list is appended to the list
C12_Original ==
  [][\A s \in Socks : \A detail \in StepUpdates :
       (/\ currentTask.present /\ detail.task_id = currentTask.task_id
        /\ detail.step = Len(steps) + 1
        /\ ReceiveStepUpdate(s, detail))
         => Ids(steps') = Append(Ids(steps), <<detail.task_id, detail.step>>)]_vars

\* C13: a pushed step whose position is beyond the end of the list, or that
\* the list already holds, leaves the list as it is (no placeholder); a later
\* poll answer that is longer than the list installs exactly the fetched
\* steps, in order.
C13_DiscardThenPoll ==
  [][/\ \A s \in Socks : \A detail \in StepUpdates :
          (/\ detail.step > Len(steps) + 1 \/ detail.step <= Len(steps)
           /\ ReceiveStepUpdate(s, detail))
            => steps' = steps
     /\ \A c \in BagToSet(calls) :
          (PollStepsResult(c, TRUE) /\ c.n > Len(steps))
            => Ids(steps') = Ids(StepsOf(c.tid, c.n))]_vars

\* a push has just been delivered to an empty list while the backend holds
\* two steps, and a poll answer with both steps is due
C13_Witness ==
  /\ dispatched = <<"task-step-update">>
  /\ currentTask.present /\ steps = <<>> /\ server[propTaskId].n = 2
  /\ \E c \in BagToSet(calls) :
       c.fn = "poll" /\ c.pc = "getSteps" /\ c.st = "ok" /\ c.n = 2

\* the baseline load of the mounted view has finished and produced a task
BaselineLoaded ==
  /\ tvPhase = "mounted" /\ currentTask.present
  /\ \A c \in BagToSet(calls) : c.fn # "mount"

\* C14 as stated: once the baseline is loaded the poll timer is active
\* whenever the status is running or waiting_for_user
C14_Original ==
  (BaselineLoaded /\ currentTask.status \in {"running", "waiting_for_user"})
     => pollingTimer

\* C15 as stated: from the moment the status is completed, failed or
\* cancelled the poll timer is stopped and no poll tick is issued
C15_Original ==
  [][/\ (currentTask'.present /\ currentTask'.status \in Terminal) => ~pollingTimer'
     /\ (currentTask.present /\ currentTask.status \in Terminal) => ~PollTick]_vars

\* C19 as stated: an intervention event for a task other than the observed
\* one opens no prompt and starts no countdown
C19_Original ==
  [][\A s \in Socks : \A data \in Details(nextRequest) :
       (data.task_id # propTaskId /\ ReceiveIntervention(s, data))
         => UNCHANGED <<visible, countdownTimer, requestId, remainingTime>>]_vars

\* C20 as stated: every open event sets connected, resets the attempt
\* counter and the delay, puts exactly one subscribe frame on the transport
\* that opened and starts the heartbeat
C20_Original ==
  [][\A s \in Socks :
       SocketOpen(s) =>
         /\ connected' /\ reconnectAttempts' = 0 /\ reconnectDelay' = FloorDelay
         /\ wire' = <<[sock |-> s, msg |-> Subscribe]>>
         /\ heartbeatTimer']_vars

\* C16 as stated: the step that changes the observed task leaves none of the
\* previous task's timers active (poll interval, elapsed timer, countdown of
\* an intervention of the previous task)
C16_Original ==
  [][\A t \in TaskIds \cup {""} :
       SwitchTask(t) =>
         /\ ~pollingTimer' /\ ~elapsedTimer'
         /\ ~(countdownTimer' /\ taskId = propTaskId)]_vars

\* the step hands exactly one "User cancelled" response of the shown request
\* to the connection and leaves pending
CancelledResponse ==
  /\ Len(outbox') = 1
  /\ outbox'[1].type = "human_intervention_response"
  /\ outbox'[1].request_id = requestId /\ outbox'[1].task_id = taskId
  /\ outbox'[1].success = FALSE /\ outbox'[1].error = "User cancelled"
  /\ handed'[requestId] = handed[requestId] + 1
  /\ ~visible' /\ ~countdownTimer'

\* C18 as stated: while a request is pending, the prompt's cancel button and
\* the cancellation of the request's task each send one "User cancelled"
\* response and leave pending, whatever the kind of the request
C18_Original ==
  [][/\ (Pending /\ ClickCancel) => CancelledResponse
     /\ \A c \in BagToSet(calls) :
          (Pending /\ taskId = currentTask.task_id /\ CancelResult(c, TRUE))
            => CancelledResponse]_vars

\* the selections and texts the ask-user dialog of the task view can hold
Selections == {""} \cup UNION {{o[i] : i \in DOMAIN o} : o \in QuestionOptions}

\* C17: a click on submit (or Enter) while the input of an input request is
\* empty or blank changes nothing: no response is sent, the request stays
\* pending and its countdown keeps running; a successful confirm response
\* always carries one of the options of the shown request; the submit button
\* of the ask-user dialog is enabled only once an option is selected (a
\* question with options) or the text is not blank (one without), and
\* submitAnswer() has a non-empty answer then.
C17_BlankRejected ==
  /\ \A o \in QuestionOptions : \A sel \in Selections : \A inp \in InputTexts :
       canSubmit(Question(o), sel, inp) =>
          /\ answerOf(sel, inp) # <<>>
          /\ IF o # <<>> THEN sel # "" ELSE trim(inp) # <<>>
  /\ [][/\ (ClickSubmit /\ trim(inputValue) = <<>>) => (Pending /\ UNCHANGED vars)
        /\ (handed' # handed /\ outbox'[1].success
              /\ outbox'[1].response_type = "confirm")
             => \E i \in DOMAIN options : outbox'[1].selected_option = options[i]]_vars

\* a blank text stands in the input field of a pending input request
C17_Witness ==
  /\ Pending /\ interventionType = "input"
  /\ inputValue # <<>> /\ trim(inputValue) = <<>>

\* C21: a frame goes onto a transport only in the step in which send() is
\* called with it, and only onto ws.value while that socket is OPEN; a call
\* of send() in any other state puts nothing on any transport, and a
\* heartbeat tick (a bare call of send) changes no connection state.
C21_SendOnlyWhenOpen ==
  [][/\ wire' # <<>> =>
          /\ Len(outbox') = 1
          /\ wire' = <<[sock |-> ws', msg |-> outbox'[1]]>>
          /\ ws' # 0 /\ socks'[ws'] = "OPEN"
     /\ (outbox' # <<>> /\ ~(ws' # 0 /\ socks'[ws'] = "OPEN")) => wire' = <<>>
     /\ HeartbeatTick =>
          UNCHANGED <<socks, ws, connected, reconnectAttempts, reconnectDelay,
                      heartbeatTimer, timers>>]_vars

\* a heartbeat tick has called send() while ws.value was not open
C21_Witness ==
  /\ outbox = <<Ping>> /\ wire = <<>>
  /\ ~(ws # 0 /\ socks[ws] = "OPEN")

\* C22: the heartbeat interval exists exactly in the states in which
\* connected is true, and each of its ticks hands one ping to send().
C22_HeartbeatIffConnected ==
  /\ [](heartbeatTimer <=> connected)
  /\ [][HeartbeatTick => (connected /\ outbox' = <<Ping>>)]_vars

\* a ping has gone out on the open transport
C22_Witness ==
  /\ connected /\ heartbeatTimer
  /\ outbox = <<Ping>> /\ wire = <<[sock |-> ws, msg |-> Ping]>>

\* C25: a poll tick whose request fails (the task request or the steps
\* request) leaves the step list and the poll timer as they are, and the
\* timer can tick again.
C25_FailedTickHarmless ==
  [][\A c \in BagToSet(calls) :
       (PollTaskResult(c, FALSE) \/ PollStepsResult(c, FALSE)) =>
          /\ steps' = steps
          /\ pollingTimer' = pollingTimer
          /\ InFlight' < MaxInflight]_vars

\* every tick that fetched the terminal status has lost its steps request:
\* the status is terminal and the timer still runs with nothing in flight
C25_Witness ==
  /\ currentTask.present /\ currentTask.status \in Terminal
  /\ pollingTimer /\ calls = EmptyBag

\* the texts that are not JSON or carry none of the known types
BadTexts ==
  {text \in Texts : ~JSONparse(text).ok \/ JSONparse(text).type \notin KnownTypes}

\* C23: an inbound frame that is not JSON, or whose type is none of the
\* known ones, dispatches no event, calls no listener, leaves deviceStats,
\* taskStats and the connection as they are, and its socket stays open for
\* the next frame.
C23_BadFrameDropped ==
  [][\A s \in Socks : \A text \in BadTexts :
       onmessage(s, text) =>
          /\ dispatched' = <<>> /\ invoked' = <<>>
          /\ UNCHANGED <<deviceStats, taskStats, socks, ws, connected,
                         heartbeatTimer, listeners>>
          /\ socks'[s] = "OPEN"]_vars

\* a frame that is not JSON was the first frame on the open connection,
\* with a listener registered: only a parsed frame assigns latestUpdate
C23_Witness ==
  /\ connected /\ IsOpen(ws, socks)
  /\ outbox = <<>> /\ ~latestUpdate
  /\ listeners # <<>>

\* the frame's event has called every listener registered under name once,
\* in registration order (ids grow with registration), with detail
CalledEach(name, detail) ==
  /\ {invoked'[k].listener : k \in DOMAIN invoked'} =
        {Registered[i].id : i \in {j \in DOMAIN Registered : Registered[j].event = name}}
  /\ \A k \in DOMAIN invoked' :
        /\ invoked'[k].detail = detail
        /\ \A m \in DOMAIN invoked' : k < m => invoked'[k].listener < invoked'[m].listener

C26_Original ==
  [][(maxReached' /\ ~maxReached) =>
        \/ dispatched' # <<>>
        \/ invoked' # <<>>
        \/ <<deviceStats', taskStats', latestUpdate'>> #
              <<deviceStats, taskStats, latestUpdate>>]_vars

\* C29: whenever the answer of a baseline load or of a poll request writes
\* the task projection or the step list, the request was made for the task
\* id that is observed now, and a poll tick asks for the steps of the task
\* id whose record it has just read.
C29_Original ==
  [][\A c \in BagToSet(calls) :
       /\ ((LoadTaskResult(c, TRUE) \/ LoadStepsResult(c, TRUE) \/
            PollStepsResult(c, TRUE)) /\
           (currentTask' # currentTask \/ steps' # steps)) => c.tid = propTaskId
       /\ PollTaskResult(c, TRUE) => c.tid = propTaskId]_vars

\* C30: for one observed task, the answer of a full reload's steps request
\* never leaves the step list shorter than it was.
C30_Original ==
  [][\A c \in BagToSet(calls) :
       LoadStepsResult(c, TRUE) => Len(steps') >= Len(steps)]_vars

\* C28: a tick of the elapsed timer changes nothing but elapsedTime, and
\* changes it only while the shown status is running; once the view has
\* shown a terminal status of the task, no step changes elapsedTime.
C28_Original ==
  [][/\ ElapsedTick =>
          /\ UNCHANGED <<tvPhase, propTaskId, currentTask, steps, pollingTimer,
                         elapsedTimer, calls, askVars, busyVars, tvEnv, nonTV>>
          /\ elapsedTime' # elapsedTime => currentTask.status = "running"
     /\ wasTerminal => elapsedTime' = elapsedTime]_vars

\* C24: a mounted view without a task projection (a view that is loading)
\* gets its projection eventually, whether or not the first fetch failed.
C24_Original ==
  (tvPhase = "mounted" /\ propTaskId # "" /\ ~currentTask.present)
     ~> currentTask.present

\* C31: once the view has shown a terminal status of the observed task
\* (read by a load or a poll, or set by a successful cancel), the status it
\* shows is terminal.
C31_Original ==
  wasTerminal => (currentTask.present /\ currentTask.status \in Terminal)

\* C33: connected is true exactly in the states in which ws.value is a
\* socket whose readyState is OPEN.
C33_Original == connected <=> IsOpen(ws, socks)

\* C34: at most one setTimeout(connect) callback is pending.
C34_Original == PendingTimers <= 1

\* C35: the ask-user dialog is open only in states in which the shown
\* status is waiting_for_user and the task has a pending question.
C35_Original ==
  showQuestionDialog =>
     /\ currentTask.present /\ currentTask.status = "waiting_for_user"
     /\ currentTask.pending_question.present

\* C37: the step in which the answer POST is rejected leaves the ask-user
\* dialog open with the question, the selection and the typed text as they
\* were and clears isSubmitting, so that the answer can be submitted again;
\* the click itself does not close the dialog, and a step of submitAnswer
\* closes it only when it delivers the POST's success.
C37_FailedAnswerKeepsDialog ==
  [][/\ (answerFailed' /\ ~answerFailed) =>
          /\ showQuestionDialog
          /\ UNCHANGED <<showQuestionDialog, pendingQuestion, userSelection, userInput>>
          /\ ~isSubmitting'
     /\ ClickSubmitAnswer => UNCHANGED showQuestionDialog
     /\ (isSubmitting /\ showQuestionDialog /\ ~showQuestionDialog') =>
          \E c \in BagToSet(calls) :
             c.fn = "submit" /\ c.pc = "answer" /\ c.st = "ok" /\ SubmitResult(c, TRUE)]_vars

\* the answer POST has been rejected and the dialog still holds the answer
C37_Witness ==
  /\ answerFailed /\ showQuestionDialog /\ ~isSubmitting
  /\ answerOf(userSelection, userInput) # <<>>

\* C32: in every state after the unmount of the task view neither the poll
\* timer nor the elapsed timer exists.
C32_Original ==
  tvPhase = "unmounted" => (~pollingTimer /\ ~elapsedTimer /\ pollLive = 0 /\ elapsedLive = 0)

\* C36: of each timer kind (poll interval, elapsed timer, heartbeat,
\* intervention countdown) at most one instance is alive in every state, and
\* it is the one whose handle the program holds.
C36_OneTimerPerKind ==
  /\ pollLive = (IF pollingTimer THEN 1 ELSE 0)
  /\ elapsedLive = (IF elapsedTimer THEN 1 ELSE 0)
  /\ heartbeatLive = (IF heartbeatTimer THEN 1 ELSE 0)
  /\ countdownLive = (IF countdownTimer THEN 1 ELSE 0)

\* every kind has been started more than once: the transport that carried
\* two requests was lost and the heartbeat started again by the onopen of the
\* next one, the countdown runs for the second request, the view's timers run
\* after the switch to task B
C36_Witness ==
  /\ outbox = <<Subscribe>> /\ connected /\ heartbeatLive = 1
  /\ Cardinality(accepted) > 1 /\ countdownLive = 1
  /\ propTaskId = "B" /\ pollLive = 1 /\ elapsedLive = 1

====
